---- MODULE Spec2Model ----
(***************************************************************************)
(* A model of the validation-report pipeline of three-gltf-viewer:         *)
(* ValidationController (validate, resolveExternalResource, setReport,     *)
(* groupMessages, setReportException, the toggle and the lightbox).        *)
(*                                                                         *)
(* Strings are sequences of characters (one-character strings, and the     *)
(* escape "%20" as one element).  The browser's event loop is modelled as  *)
(* it schedules the code: a promise reaction (microtask) runs before any   *)
(* other task, so while a reaction of a validate chain is queued nothing   *)
(* else happens.                                                           *)
(***************************************************************************)
EXTENDS Integers, Sequences, FiniteSets

\* ------------------------------------------------------------------ bounds
MaxInv == 2      \* validate invocations on the one controller
MaxRes == 2      \* externalResourceFunction calls made by the validator, in all
MaxTabs == 1     \* report tabs opened by showLightbox
MaxMsgs == 3     \* messages of a raw report (normalizer inputs)
MaxCount == 3    \* numErrors .. numHints of a raw report (normalizer inputs)

MaxLoads == 2
MaxBlobs == 2

Invocations == 1..MaxInv
Loads == 1..MaxLoads

\* ----------------------------------------------------------------- strings
IsAt(s, sub, i) ==
    /\ i + Len(sub) - 1 <= Len(s)
    /\ SubSeq(s, i, i + Len(sub) - 1) = sub

\* String.prototype.indexOf, 1-based, 0 when absent
IndexOf(s, sub) ==
    IF \E i \in 1..(Len(s) + 1) : IsAt(s, sub, i)
    THEN CHOOSE i \in 1..(Len(s) + 1) :
            IsAt(s, sub, i) /\ \A j \in 1..(i - 1) : ~IsAt(s, sub, j)
    ELSE 0

\* String.prototype.lastIndexOf of one character, 1-based, 0 when absent
LastIndexOf(s, ch) ==
    IF \E i \in 1..Len(s) : s[i] = ch
    THEN CHOOSE i \in 1..Len(s) : s[i] = ch /\ \A j \in (i + 1)..Len(s) : s[j] # ch
    ELSE 0

\* s.replace(sub, ''): a string pattern replaces its first occurrence only
RemoveFirst(s, sub) ==
    LET i == IndexOf(s, sub)
    IN  IF i = 0 THEN s
        ELSE SubSeq(s, 1, i - 1) \o SubSeq(s, i + Len(sub), Len(s))

\* s.replace(/^(\.?\/)/, '')
StripLeadingSlash(s) ==
    IF IsAt(s, <<".", "/">>, 1) THEN SubSeq(s, 3, Len(s))
    ELSE IF IsAt(s, <<"/">>, 1) THEN SubSeq(s, 2, Len(s))
    ELSE s

\* decodeURI: the escape of a space becomes a space
decodeURI(s) == [k \in 1..Len(s) |-> IF s[k] = "%20" THEN " " ELSE s[k]]

\* THREE.LoaderUtils.extractUrlBase
extractUrlBase(url) ==
    LET index == LastIndexOf(url, "/")
    IN  IF index = 0 THEN <<".", "/">> ELSE SubSeq(url, 1, index)

\* the key resolveExternalResource looks up in the asset map
normalizedURL(uri, baseURL, rootPath) ==
    rootPath \o StripLeadingSlash(RemoveFirst(decodeURI(uri), baseURL))

\* the sorted sequence of a finite set of integers
RECURSIVE SortedSeq(_)
SortedSeq(S) ==
    IF S = {} THEN <<>>
    ELSE LET m == CHOOSE x \in S : \A y \in S : x <= y
         IN  <<m>> \o SortedSeq(S \ {m})

\* String(n) of a small count
NumStr(n) == <<"0", "1", "2", "3", "4", "5", "6", "7", "8", "9">>[n + 1]

\* ------------------------------------------------------- report normalizer
SEVERITY_MAP == <<"Errors", "Warnings", "Infos", "Hints">>

\* severity of a message object that has no severity property (undefined)
NoSeverity == -1

\* the keys of CODES in groupMessages, in property order
CODES == <<"ACCESSOR_NON_UNIT", "ACCESSOR_ANIMATION_INPUT_NON_INCREASING">>

\* CODES[code].message, the text around the {count} placeholder
CodeMessage(code) ==
    IF code = "ACCESSOR_NON_UNIT"
    THEN <<"{count}", " accessor elements not of unit length: 0. [AGGREGATED]">>
    ELSE <<"{count}", " animation input accessor elements not in ascending order. [AGGREGATED]">>

\* template.replace('{count}', n)
ReplaceCount(template, n) ==
    [k \in 1..Len(template) |->
        IF k = IndexOf(template, <<"{count}">>) THEN NumStr(n) ELSE template[k]]

IsCode(code) == \E k \in 1..Len(CODES) : CODES[k] = code

\* CODES[code].pointerCounts[pointer] after the counting loop (0: no such key)
PointerCount(errors, code, pointer) ==
    Cardinality({k \in 1..Len(errors) :
                    errors[k].code = code /\ errors[k].pointer = pointer})

\* Object.keys(CODES[code].pointerCounts): the pointers in insertion order
PointerKeys(errors, code) ==
    LET first == {k \in 1..Len(errors) :
                    /\ errors[k].code = code
                    /\ \A j \in 1..(k - 1) :
                          ~(errors[j].code = code /\ errors[j].pointer = errors[k].pointer)}
        order == SortedSeq(first)
    IN  [n \in 1..Len(order) |-> errors[order[n]].pointer]

\* whether the filter of groupMessages keeps a message
KeepsMessage(errors, m) ==
    \/ ~IsCode(m.code)
    \/ PointerCount(errors, m.code, m.pointer) = 0
    \/ PointerCount(errors, m.code, m.pointer) < 2

\* the entries the push loop appends for one code
Synthetic(errors, code) ==
    LET keys == PointerKeys(errors, code)
    IN  [n \in 1..Len(keys) |->
            [code |-> code, pointer |-> keys[n], severity |-> NoSeverity,
             message |-> ReplaceCount(CodeMessage(code),
                                      PointerCount(errors, code, keys[n]))]]

\* report.errors after groupMessages(report)
groupMessages(errors) ==
    SelectSeq(errors, LAMBDA m : KeepsMessage(errors, m))
        \o Synthetic(errors, CODES[1]) \o Synthetic(errors, CODES[2])

\* a filter that keeps every message at or below a level of importance
FilterSeverityAtLeast(messages, level) ==
    SelectSeq(messages, LAMBDA m : m.severity >= level)

\* messages.filter((msg) => msg.severity === level)
FilterSeverity(messages, level) == SelectSeq(messages, LAMBDA m : m.severity = level)

\* the forEach over SEVERITY_MAP, from index (1-based) on; acc is maxSeverity so far
RECURSIVE SeverityScan(_, _, _)
SeverityScan(num, index, acc) ==
    IF index > Len(SEVERITY_MAP) THEN acc
    ELSE SeverityScan(num, index + 1,
            IF num[SEVERITY_MAP[index]] > 0 /\ acc = -1 THEN index - 1 ELSE acc)

\* a scan in which the last level with a count wins
maxSeverityLast(num) ==
    LET levels == {k \in 1..Len(SEVERITY_MAP) : num[SEVERITY_MAP[k]] > 0}
    IN  IF levels = {} THEN -1
        ELSE (CHOOSE k \in levels : \A j \in levels : j <= k) - 1

\* lines 97-102: report.issues.maxSeverity
maxSeverity(num) == SeverityScan(num, 1, -1)

\* glob(pattern).test(str): "*" stands for any sequence of characters
RECURSIVE GlobMatch(_, _)
GlobMatch(pattern, str) ==
    IF pattern = <<>> THEN str = <<>>
    ELSE IF Head(pattern) = "*"
         THEN GlobMatch(Tail(pattern), str)
              \/ (str # <<>> /\ GlobMatch(pattern, Tail(str)))
         ELSE str # <<>> /\ Head(str) = Head(pattern)
              /\ GlobMatch(Tail(pattern), Tail(str))

\* the predicate of registry.generators.find
ToolMatches(tool, generatorID) ==
    IF IndexOf(tool.generator, <<"*">>) = 0
    THEN tool.generator = generatorID
    ELSE GlobMatch(tool.generator, generatorID)

\* a lookup in which the last entry that matches wins
FindGeneratorLast(reg, generatorID) ==
    IF \E k \in 1..Len(reg) : ToolMatches(reg[k], generatorID)
    THEN CHOOSE k \in 1..Len(reg) :
            /\ ToolMatches(reg[k], generatorID)
            /\ \A j \in (k + 1)..Len(reg) : ~ToolMatches(reg[j], generatorID)
    ELSE 0

\* registry.generators.find(...): the index of the first match, 0 for undefined
FindGenerator(reg, generatorID) ==
    IF \E k \in 1..Len(reg) : ToolMatches(reg[k], generatorID)
    THEN CHOOSE k \in 1..Len(reg) :
            /\ ToolMatches(reg[k], generatorID)
            /\ \A j \in 1..(k - 1) : ~ToolMatches(reg[j], generatorID)
    ELSE 0

\* report && report.info && report.info.generator || ''
GeneratorID(raw) == IF raw.kind = "report" THEN raw.generator ELSE <<>>

\* generator.name = `${generator.name} by ${generator.author}`
RewriteName(tool) ==
    IF tool.name # tool.author
    THEN [tool EXCEPT !.name = tool.name \o <<" by ">> \o tool.author]
    ELSE tool

\* the registry after lines 82-94 of setReport ran on a raw report
RegistryAfter(reg, raw) ==
    LET g == FindGenerator(reg, GeneratorID(raw))
    IN  IF g = 0 THEN reg ELSE [reg EXCEPT ![g] = RewriteName(reg[g])]

\* the report object after lines 95-107 of setReport; generator is a reference
\* to the registry entry (its index, 0 for undefined)
NormalizedReport(raw, reg) ==
    [kind |-> "report",
     info |-> raw.generator,
     num |-> raw.num,
     messages |-> raw.messages,
     generator |-> FindGenerator(reg, GeneratorID(raw)),
     maxSeverity |-> maxSeverity(raw.num),
     errors |-> groupMessages(FilterSeverity(raw.messages, 0)),
     warnings |-> FilterSeverity(raw.messages, 1),
     infos |-> FilterSeverity(raw.messages, 2),
     hints |-> FilterSeverity(raw.messages, 3)]

\* the name a template prints for report.generator.name at the time it renders
GeneratorName(reg, g) == IF g = 0 THEN <<>> ELSE reg[g].name

\* ------------------------------------------------------------------ inputs
\* the entries of registry.generators as loaded: a wildcard entry, an exact
\* entry, and an exact entry that the wildcard entry before it covers
RegistryInit ==
    << [generator |-> <<"C", "*">>, name |-> <<"Foo">>, author |-> <<"Bar">>],
       [generator |-> <<"B">>, name |-> <<"Baz">>, author |-> <<"Baz">>],
       [generator |-> <<"C", "2">>, name |-> <<"Qux">>, author |-> <<"Qux">>] >>

\* what a caller passes to validate(rootFile, rootPath, assetMap); the asset
\* map holds, per key, the bytes of the dropped file
Requests ==
    { [rootFile |-> <<"d", "/", "m">>, rootPath |-> <<>>,
       assetMap |-> [k \in {<<"a">>, <<"a", " ", "c">>} |->
                        IF k = <<"a">> THEN "bytesA" ELSE "bytesC"]],
      [rootFile |-> <<"m">>, rootPath |-> <<"p", "/">>,
       assetMap |-> [k \in {<<"p", "/", "a", " ", "c">>} |-> "bytesP"]] }

\* the uris the validator asks externalResourceFunction for
URIs ==
    { <<"d", "/", "a">>, <<".", "/", "a", "%20", "c">>, <<"b", "%20">> }

\* what a network fetch that succeeds delivers
NetBytes == "bytesNet"

Null == [kind |-> "null"]
NoReport == [kind |-> "none"]
NoArgs == [rootFile |-> <<>>, rootPath |-> <<>>, assetMap |-> <<>>]

Msg(code, pointer, severity) ==
    [code |-> code, pointer |-> pointer, severity |-> severity, message |-> <<"text">>]

Num(e, w, i, h) == [Errors |-> e, Warnings |-> w, Infos |-> i, Hints |-> h]

\* what validateBytes resolves with in the pipeline runs: nothing, a clean report
\* of a registered generator, a report with repeated and single errors
Reports ==
    { Null,
      [kind |-> "report", generator |-> <<"C", "2">>, num |-> Num(0, 0, 0, 0),
       messages |-> <<>>],
      [kind |-> "report", generator |-> <<>>, num |-> Num(3, 1, 0, 0),
       messages |-> << Msg(CODES[1], "/meshes/0", 0), Msg(CODES[1], "/meshes/0", 0),
                       Msg("OTHER", "/meshes/0", 0), Msg("OTHER", "/meshes/1", 1) >>] }

\* ------------------------------------------------------------------- state
VARIABLES
    pc,             \* per validate invocation: where its promise chain stands
    args,           \* per invocation: rootFile, rootPath, assetMap
    result,         \* per invocation: what validateBytes resolved with
    failure,        \* per invocation: what rejected its chain ("none": nothing)
    ran,            \* per invocation: how often setReport / setReportException ran
    resolves,       \* the calls of resolveExternalResource, in call order
    liveURLs,       \* object URLs created and not revoked
    report,         \* this.report
    toggleHidden,   \* toggleEl has class "hidden"
    toggleContent,  \* toggleEl.innerHTML, as what it was rendered from
    tabs,           \* the tabs showLightbox opened, each as what it renders
    registry,       \* registry.generators
    lastOp          \* the operation that ran last

\* the viewer (Viewer.js)
VARIABLES
    loadPc,         \* per Viewer.load call: where it stands
    loadArgs,       \* per load call: rootPath and the keys of assetMap
    hook,           \* the load call whose closure is window.gltfPathTransform
    blobURLs,       \* per load call: the blobURLs array of its closure
    liveBlobs,      \* object URLs created by the hook and not revoked
    state,          \* this.state
    lights,         \* this.lights
    content,        \* this.content
    clips,          \* this.clips
    mixer,          \* this.mixer
    threw,          \* the operation that ran last threw a TypeError
    vop             \* the viewer operation that ran last

vvars == <<loadPc, loadArgs, hook, blobURLs, liveBlobs, state, lights, content,
           clips, mixer, threw, vop>>

cvars == <<pc, args, result, failure, ran, resolves, liveURLs, report,
           toggleHidden, toggleContent, tabs, registry, lastOp>>

vars == <<cvars, vvars>>

\* this.content = null, this.mixer = null
NoContent == [kind |-> "null"]
NoMixer == [kind |-> "null"]
NoLoadArgs == [rootPath |-> <<>>, assets |-> {}]

\* the constructor of Viewer, lines 13-71: no lights, content, mixer or clips;
\* no load was started, so no path-transform hook is installed
InitViewer ==
    /\ lights = <<>>
    /\ content = NoContent
    /\ mixer = NoMixer
    /\ clips = <<>>
    /\ state = [playAnimation |-> TRUE, addLights |-> TRUE,
                directColor |-> "ffeedd", directIntensity |-> 1,
                ambientColor |-> "222222", ambientIntensity |-> 1]
    /\ loadPc = [l \in Loads |-> "idle"]
    /\ loadArgs = [l \in Loads |-> NoLoadArgs]
    /\ hook = 0
    /\ blobURLs = [l \in Loads |-> <<>>]
    /\ liveBlobs = {}
    /\ threw = FALSE
    /\ vop = "constructor"

\* the constructor: no report, an empty toggle with class "hidden"
InitController ==
    /\ report = Null
    /\ toggleHidden = TRUE
    /\ toggleContent = [view |-> "empty"]
    /\ tabs = <<>>
    /\ registry = RegistryInit
    /\ resolves = <<>>
    /\ liveURLs = {}
    /\ lastOp = "constructor"
    /\ ran = [i \in Invocations |-> [setReport |-> 0, setReportException |-> 0]]
    /\ failure = [i \in Invocations |-> "none"]

Init ==
    /\ InitController
    /\ InitViewer
    /\ pc = [i \in Invocations |-> "idle"]
    /\ args = [i \in Invocations |-> NoArgs]
    /\ result = [i \in Invocations |-> NoReport]

\* a promise reaction of some validate chain is queued: it runs before any task
MicrotaskPending == \E i \in Invocations : pc[i] \in {"resolved", "rejected"}

\* ------------------------------------------------------------ validate
\* validate(rootFile, rootPath, assetMap): fetch(rootFile) is issued
Validate(i, req) ==
    /\ ~MicrotaskPending
    /\ pc[i] = "idle"
    /\ \A j \in 1..(i - 1) : pc[j] # "idle"
    /\ pc' = [pc EXCEPT ![i] = "fetchRoot"]
    /\ args' = [args EXCEPT ![i] = req]
    /\ lastOp' = "validate"
    /\ UNCHANGED <<result, failure, ran, resolves, liveURLs, report,
                   toggleHidden, toggleContent, tabs, registry>>
    /\ UNCHANGED vvars

\* a chain that hands the response to the validator without reading its body
RootRespondsValidates(i) ==
    /\ ~MicrotaskPending
    /\ pc[i] = "fetchRoot"
    /\ pc' = [pc EXCEPT ![i] = "validating"]
    /\ lastOp' = "rootResponse"
    /\ UNCHANGED <<args, result, failure, ran, resolves, liveURLs, report,
                   toggleHidden, toggleContent, tabs, registry>>
    /\ UNCHANGED vvars

\* fetch(rootFile) fulfils: response.arrayBuffer() is called
RootResponds(i) ==
    /\ ~MicrotaskPending
    /\ pc[i] = "fetchRoot"
    /\ pc' = [pc EXCEPT ![i] = "readRoot"]
    /\ lastOp' = "rootResponse"
    /\ UNCHANGED <<args, result, failure, ran, resolves, liveURLs, report,
                   toggleHidden, toggleContent, tabs, registry>>
    /\ UNCHANGED vvars

\* arrayBuffer() fulfils: validator.validateBytes is called with the resolver
RootRead(i) ==
    /\ ~MicrotaskPending
    /\ pc[i] = "readRoot"
    /\ pc' = [pc EXCEPT ![i] = "validating"]
    /\ lastOp' = "validateBytes"
    /\ UNCHANGED <<args, result, failure, ran, resolves, liveURLs, report,
                   toggleHidden, toggleContent, tabs, registry>>
    /\ UNCHANGED vvars

\* fetch(rootFile) or its arrayBuffer() rejects
RootFails(i) ==
    /\ ~MicrotaskPending
    /\ pc[i] \in {"fetchRoot", "readRoot"}
    /\ pc' = [pc EXCEPT ![i] = "rejected"]
    /\ failure' = [failure EXCEPT ![i] = "rootFetch"]
    /\ lastOp' = "rootFails"
    /\ UNCHANGED <<args, result, ran, resolves, liveURLs, report,
                   toggleHidden, toggleContent, tabs, registry>>
    /\ UNCHANGED vvars

\* ------------------------------------------------- resolveExternalResource
\* a fetch() that ignores the object URL: always baseURL + uri
FetchTargetNetwork(objectURL, baseURL, uri) ==
    [net |-> TRUE, blob |-> 0, url |-> baseURL \o uri]

\* a fetch() of the decoded uri where the original uri belongs
FetchTargetDecoded(objectURL, baseURL, uri) ==
    IF objectURL # 0
    THEN [net |-> FALSE, blob |-> objectURL, url |-> <<>>]
    ELSE [net |-> TRUE, blob |-> 0, url |-> baseURL \o decodeURI(uri)]

\* the argument of fetch() at line 70: objectURL || (baseURL + uri);
\* objectURL 0 stands for undefined
FetchTarget(objectURL, baseURL, uri) ==
    IF objectURL # 0
    THEN [net |-> FALSE, blob |-> objectURL, url |-> <<>>]
    ELSE [net |-> TRUE, blob |-> 0, url |-> baseURL \o uri]

\* lines 58-70: the call up to the point where fetch() is issued; freshURL is
\* the object URL that URL.createObjectURL would hand out
ResolverCall(inv, uri, request, freshURL) ==
    LET baseURL == extractUrlBase(request.rootFile)
        key == normalizedURL(uri, baseURL, request.rootPath)
        has == key \in DOMAIN request.assetMap
        objectURL == IF has THEN freshURL ELSE 0
    IN  [inv |-> inv, uri |-> uri, objectURL |-> objectURL,
         object |-> IF has THEN request.assetMap[key] ELSE "none",
         fetches |-> <<FetchTarget(objectURL, baseURL, uri)>>,
         status |-> "fetching", bytes |-> "none"]

\* line 73: if (objectURL) URL.revokeObjectURL(objectURL)
RevokeAfterRead(live, objectURL) ==
    IF objectURL # 0 THEN live \ {objectURL} ELSE live

Calls == 1..Len(resolves)

Outstanding(i) ==
    \E c \in Calls : resolves[c].inv = i /\ resolves[c].status \in {"fetching", "reading"}

\* the validator calls externalResourceFunction(uri)
Resolve(i, uri) ==
    /\ ~MicrotaskPending
    /\ pc[i] = "validating"
    /\ Len(resolves) < MaxRes
    /\ LET call == ResolverCall(i, uri, args[i], Len(resolves) + 1)
       IN  /\ resolves' = Append(resolves, call)
           /\ liveURLs' = IF call.objectURL # 0
                          THEN liveURLs \cup {call.objectURL} ELSE liveURLs
    /\ lastOp' = "resolveExternalResource"
    /\ UNCHANGED <<pc, args, result, failure, ran, report,
                   toggleHidden, toggleContent, tabs, registry>>
    /\ UNCHANGED vvars

\* the fetch of a call fulfils (an object URL must still be live to be read)
FetchResponds(c) ==
    /\ ~MicrotaskPending
    /\ resolves[c].status = "fetching"
    /\ LET target == resolves[c].fetches[Len(resolves[c].fetches)]
       IN  target.net \/ target.blob \in liveURLs
    /\ resolves' = [resolves EXCEPT ![c].status = "reading"]
    /\ lastOp' = "resourceResponse"
    /\ UNCHANGED <<pc, args, result, failure, ran, liveURLs, report,
                   toggleHidden, toggleContent, tabs, registry>>
    /\ UNCHANGED vvars

\* arrayBuffer() of a call fulfils: lines 72-75, the call fulfils with the bytes
BodyRead(c) ==
    /\ ~MicrotaskPending
    /\ resolves[c].status = "reading"
    /\ LET target == resolves[c].fetches[Len(resolves[c].fetches)]
       IN  resolves' = [resolves EXCEPT
                ![c].status = "fulfilled",
                ![c].bytes = IF target.net THEN NetBytes ELSE resolves[c].object]
    /\ liveURLs' = RevokeAfterRead(liveURLs, resolves[c].objectURL)
    /\ lastOp' = "resourceRead"
    /\ UNCHANGED <<pc, args, result, failure, ran, report,
                   toggleHidden, toggleContent, tabs, registry>>
    /\ UNCHANGED vvars

\* the fetch of a call, or its arrayBuffer(), rejects (no such resource, the
\* dropped file can no longer be read): the then-callback of line 72 is skipped
CallFails(c) ==
    /\ ~MicrotaskPending
    /\ resolves[c].status \in {"fetching", "reading"}
    /\ resolves' = [resolves EXCEPT ![c].status = "rejected"]
    /\ lastOp' = "resourceFails"
    /\ UNCHANGED <<pc, args, result, failure, ran, liveURLs, report,
                   toggleHidden, toggleContent, tabs, registry>>
    /\ UNCHANGED vvars

\* ------------------------------------------------------------ the validator
\* validateBytes fulfils with a report, once the resources it asked for settled
ValidatorResolves(i, r) ==
    /\ ~MicrotaskPending
    /\ pc[i] = "validating"
    /\ ~Outstanding(i)
    /\ pc' = [pc EXCEPT ![i] = "resolved"]
    /\ result' = [result EXCEPT ![i] = r]
    /\ lastOp' = "validatorResolves"
    /\ UNCHANGED <<args, failure, ran, resolves, liveURLs, report,
                   toggleHidden, toggleContent, tabs, registry>>
    /\ UNCHANGED vvars

\* validateBytes rejects: a resource it asked for was rejected, or it failed itself
ValidatorRejects(i) ==
    /\ ~MicrotaskPending
    /\ pc[i] = "validating"
    /\ ~Outstanding(i)
    /\ pc' = [pc EXCEPT ![i] = "rejected"]
    /\ failure' = [failure EXCEPT ![i] =
            IF \E c \in Calls : resolves[c].inv = i /\ resolves[c].status = "rejected"
            THEN "resource" ELSE "validator"]
    /\ lastOp' = "validatorRejects"
    /\ UNCHANGED <<args, result, ran, resolves, liveURLs, report,
                   toggleHidden, toggleContent, tabs, registry>>
    /\ UNCHANGED vvars

\* ------------------------------------------------------------ presentation
\* toggleTpl(report)
ToggleReportView(rep, reg) ==
    [view |-> "report", report |-> rep, generatorName |-> GeneratorName(reg, rep.generator)]

\* toggleTpl({reportError: e, level: 0})
ToggleErrorView(e) == [view |-> "error", reportError |-> e, level |-> 0]

\* reportTpl(Object.assign({}, this.report, {location: location}))
LightboxView(rep, reg) ==
    [report |-> rep,
     generatorName |-> IF rep.kind = "report"
                       THEN GeneratorName(reg, rep.generator) ELSE <<>>,
     location |-> "location"]

\* showToggle: classList.remove('hidden'); the result is whether "hidden" is set
showToggle(hidden) == FALSE

\* a hideToggle that flips the class instead of adding it
hideToggleFlips(hidden) == ~hidden

\* hideToggle: classList.add('hidden')
hideToggle(hidden) == TRUE

\* a then-callback that drops a result once a later validate call was started
SetReportDiscardStale(i) ==
    /\ pc[i] = "resolved"
    /\ ran' = [ran EXCEPT ![i].setReport = @ + 1]
    /\ lastOp' = "setReport"
    /\ IF \E j \in Invocations : j > i /\ pc[j] # "idle"
       THEN /\ pc' = [pc EXCEPT ![i] = "done"]
            /\ UNCHANGED <<registry, report, toggleContent, toggleHidden, failure>>
       ELSE /\ registry' = RegistryAfter(registry, result[i])
            /\ IF result[i].kind = "report"
               THEN /\ report' = NormalizedReport(result[i], registry)
                    /\ toggleContent' = ToggleReportView(report', registry')
                    /\ toggleHidden' = showToggle(toggleHidden)
                    /\ pc' = [pc EXCEPT ![i] = "done"]
                    /\ UNCHANGED failure
               ELSE /\ pc' = [pc EXCEPT ![i] = "rejected"]
                    /\ failure' = [failure EXCEPT ![i] = "setReport"]
                    /\ UNCHANGED <<report, toggleContent, toggleHidden>>
    /\ UNCHANGED <<args, result, resolves, liveURLs, tabs>>
    /\ UNCHANGED vvars

\* the then-callback of line 45.  A falsy report passes line 82 and makes
\* line 95 throw, after lines 83-94 ran: the chain is rejected.
SetReport(i) ==
    /\ pc[i] = "resolved"
    /\ registry' = RegistryAfter(registry, result[i])
    /\ ran' = [ran EXCEPT ![i].setReport = @ + 1]
    /\ lastOp' = "setReport"
    /\ IF result[i].kind = "report"
       THEN /\ report' = NormalizedReport(result[i], registry)
            /\ toggleContent' = ToggleReportView(report', registry')
            /\ toggleHidden' = showToggle(toggleHidden)
            /\ pc' = [pc EXCEPT ![i] = "done"]
            /\ UNCHANGED failure
       ELSE /\ pc' = [pc EXCEPT ![i] = "rejected"]
            /\ failure' = [failure EXCEPT ![i] = "setReport"]
            /\ UNCHANGED <<report, toggleContent, toggleHidden>>
    /\ UNCHANGED <<args, result, resolves, liveURLs, tabs>>
    /\ UNCHANGED vvars

\* a setReportException that leaves this.report as it is
ReportKept(held) == held

\* line 154: this.report after setReportException
ReportAfterException(held) == Null

\* the catch-callback of line 46
SetReportException(i) ==
    /\ pc[i] = "rejected"
    /\ report' = ReportAfterException(report)
    /\ toggleContent' = ToggleErrorView(failure[i])
    /\ toggleHidden' = showToggle(toggleHidden)
    /\ pc' = [pc EXCEPT ![i] = "done"]
    /\ ran' = [ran EXCEPT ![i].setReportException = @ + 1]
    /\ lastOp' = "setReportException"
    /\ UNCHANGED <<args, result, failure, resolves, liveURLs, tabs, registry>>
    /\ UNCHANGED vvars

\* hideToggle, from the click listener of the close button
HideToggle ==
    /\ ~MicrotaskPending
    /\ toggleHidden' = hideToggle(toggleHidden)
    /\ lastOp' = "hideToggle"
    /\ UNCHANGED <<pc, args, result, failure, ran, resolves, liveURLs, report,
                   toggleContent, tabs, registry>>
    /\ UNCHANGED vvars

\* a showLightbox without the check of line 180
OpensTabAlways(held) == TRUE

\* line 180: whether showLightbox goes on to open a tab
OpensTab(held) == held # Null

\* showLightbox, from the click listener of the toggle or called directly
ShowLightbox ==
    /\ ~MicrotaskPending
    /\ OpensTab(report) => Len(tabs) < MaxTabs
    /\ tabs' = IF OpensTab(report)
               THEN Append(tabs, LightboxView(report, registry)) ELSE tabs
    /\ lastOp' = "showLightbox"
    /\ UNCHANGED <<pc, args, result, failure, ran, resolves, liveURLs, report,
                   toggleHidden, toggleContent, registry>>
    /\ UNCHANGED vvars

\* ----------------------------------------------------------- specification
Next ==
    \/ \E i \in Invocations, req \in Requests : Validate(i, req)
    \/ \E i \in Invocations : RootResponds(i)
    \/ \E i \in Invocations : RootRead(i)
    \/ \E i \in Invocations : RootFails(i)
    \/ \E i \in Invocations, uri \in URIs : Resolve(i, uri)
    \/ \E c \in Calls : FetchResponds(c)
    \/ \E c \in Calls : BodyRead(c)
    \/ \E c \in Calls : CallFails(c)
    \/ \E i \in Invocations, r \in Reports : ValidatorResolves(i, r)
    \/ \E i \in Invocations : ValidatorRejects(i)
    \/ \E i \in Invocations : SetReport(i)
    \/ \E i \in Invocations : SetReportException(i)
    \/ HideToggle
    \/ ShowLightbox

Spec == Init /\ [][Next]_vars

\* ------------------------------------------- the normalizer on many reports
Pointers == {"/meshes/0", "/meshes/1"}

GeneratorIDs == {<<>>, <<"C", "2">>, <<"C">>, <<"B">>, <<"B", "C", "2">>, <<"X">>}

\* errors of the two high-volume codes and of another code, at two pointers,
\* one message of each other severity and a second warning
Messages ==
    {Msg(code, p, 0) : code \in {CODES[1], CODES[2], "OTHER"}, p \in Pointers}
        \cup {Msg("OTHER", "/meshes/0", level) : level \in 1..3}
        \cup {Msg("OTHER", "/meshes/1", 1)}

MessageSeqs == UNION {[1..n -> Messages] : n \in 0..MaxMsgs}

\* the counts the validator reports for the messages it lists
NumOf(messages) ==
    Num(Len(FilterSeverity(messages, 0)), Len(FilterSeverity(messages, 1)),
        Len(FilterSeverity(messages, 2)), Len(FilterSeverity(messages, 3)))

\* raw reports: any messages with their counts; any counts and generator with
\* the message list left out; no report at all
RawReports ==
    {[kind |-> "report", generator |-> <<>>, num |-> NumOf(m), messages |-> m] :
        m \in MessageSeqs}
    \cup {[kind |-> "report", generator |-> g, num |-> Num(e, w, i, h), messages |-> <<>>] :
            g \in GeneratorIDs, e \in 0..MaxCount, w \in 0..MaxCount,
            i \in 0..MaxCount, h \in 0..MaxCount}
    \cup {Null}

\* validateBytes of the first invocation has just resolved with a raw report
InitNorm ==
    /\ InitController
    /\ InitViewer
    /\ pc = [i \in Invocations |-> IF i = 1 THEN "resolved" ELSE "idle"]
    /\ args = [i \in Invocations |-> NoArgs]
    /\ \E raw \in RawReports :
          result = [i \in Invocations |-> IF i = 1 THEN raw ELSE NoReport]

NextNorm ==
    \/ \E i \in Invocations : SetReport(i)
    \/ \E i \in Invocations : SetReportException(i)

SpecNorm == InitNorm /\ [][NextNorm]_vars

\* ------------------------------------------------------------ the viewer
\* what a caller passes to load(url, rootPath, assetMap): the root path and the
\* keys of the asset map
LoadRequests ==
    { [rootPath |-> <<>>, assets |-> {<<"a">>}],
      [rootPath |-> <<"p", "/">>, assets |-> {<<"p", "/", "b">>}] }

\* the relative urls a loader asks the path-transform hook for
LoaderURLs == { <<".", "/", "a">>, <<"b">> }

\* what the loader hands to its onLoad callback: gltf.scene with or without a
\* light among its nodes, and gltf.animations (|| [] when there are none)
Gltfs ==
    { [scene |-> [kind |-> "object", name |-> "plain", hasLight |-> FALSE],
       animations |-> <<>>],
      [scene |-> [kind |-> "object", name |-> "lit", hasLight |-> TRUE],
       animations |-> <<"clip">>],
      [scene |-> [kind |-> "object", name |-> "animated", hasLight |-> FALSE],
       animations |-> <<"clip">>] }

\* the values a light control hands to its onChange handler
LightHandlers == {"directColor", "directIntensity", "ambientColor", "ambientIntensity"}

HandlerValues(h) ==
    IF h = "directColor" THEN {"ffeedd", "picked"}
    ELSE IF h = "ambientColor" THEN {"222222", "picked"}
    ELSE {0, 1}

\* every object URL the hook has created so far
Created == UNION {{blobURLs[l][k] : k \in 1..Len(blobURLs[l])} : l \in Loads}

\* lines 116-118: whether the hook, under the closure of a load call, finds
\* the url in that call's asset map
HookHits(url, request) ==
    (request.rootPath \o StripLeadingSlash(url)) \in request.assets

\* line 134: the object URLs left after blobURLs.forEach(URL.revokeObjectURL)
RevokeAll(live, urls) == live \ {urls[k] : k \in 1..Len(urls)}

\* addLights, lines 217-232: what it pushes; the intensity is the default 1
addLights(st) ==
    << [type |-> "directional", color |-> st.directColor, intensity |-> 1],
       [type |-> "directional", color |-> st.directColor, intensity |-> 1],
       [type |-> "ambient", color |-> st.ambientColor, intensity |-> 1] >>

\* removeLights, lines 234-239
removeLights(ls) == <<>>

\* an updateLights that adds whenever state.addLights is set
updateLightsUnchecked(st, ls) ==
    IF st.addLights THEN ls \o addLights(st)
    ELSE IF Len(ls) # 0 THEN removeLights(ls)
    ELSE ls

\* updateLights, lines 209-215: this.lights afterwards
updateLights(st, ls) ==
    IF st.addLights /\ Len(ls) = 0 THEN ls \o addLights(st)
    ELSE IF ~st.addLights /\ Len(ls) # 0 THEN removeLights(ls)
    ELSE ls

\* the lights a handler writes to (lights[0], lights[1] or lights[2], counted
\* from 1 here) and the property it writes
HandlerTargets(h) ==
    IF h \in {"directColor", "directIntensity"} THEN <<1, 2>> ELSE <<3>>

HandlerField(h) ==
    IF h \in {"directColor", "ambientColor"} THEN "color" ELSE "intensity"

\* lines 300-317: an onChange handler of a light control writes its targets in
\* order; the first target that this.lights does not hold makes it throw
LightHandler(ls, h, v) ==
    LET targets == HandlerTargets(h)
        missing == {n \in 1..Len(targets) : targets[n] > Len(ls)}
        written == {targets[n] : n \in {m \in 1..Len(targets) :
                                            \A x \in missing : m < x}}
    IN  [lights |-> [k \in 1..Len(ls) |->
                        IF k \in written
                        THEN IF HandlerField(h) = "color"
                             THEN [ls[k] EXCEPT !.color = v]
                             ELSE [ls[k] EXCEPT !.intensity = v]
                        ELSE ls[k]],
         threw |-> missing # {}]

\* playAnimation, lines 201-203: each clip's action is played on this.mixer;
\* with a clip and no mixer it throws
playAnimation(cl, mx) ==
    IF cl = <<>> THEN [mixer |-> mx, threw |-> FALSE]
    ELSE IF mx = NoMixer THEN [mixer |-> mx, threw |-> TRUE]
    ELSE [mixer |-> [mx EXCEPT !.playing = {cl[k] : k \in 1..Len(cl)}],
          threw |-> FALSE]

\* stopAnimation, lines 205-207
stopAnimation(mx) ==
    IF mx # NoMixer THEN [mx EXCEPT !.playing = {}] ELSE mx

\* a setClips that makes the mixer only when the clips are to be played
setClipsLazy(cl, cont, st) ==
    IF cl = <<>> \/ ~st.playAnimation
    THEN [clips |-> cl, mixer |-> NoMixer, threw |-> FALSE]
    ELSE [clips |-> cl,
          mixer |-> [kind |-> "mixer", root |-> cont,
                     playing |-> {cl[k] : k \in 1..Len(cl)}],
          threw |-> FALSE]

\* setClips, lines 185-199: this.clips and this.mixer afterwards
setClips(cl, cont, st) ==
    LET made == [kind |-> "mixer", root |-> cont, playing |-> {}]
    IN  IF cl = <<>> THEN [clips |-> cl, mixer |-> NoMixer, threw |-> FALSE]
        ELSE IF st.playAnimation
             THEN [clips |-> cl, mixer |-> playAnimation(cl, made).mixer,
                   threw |-> playAnimation(cl, made).threw]
             ELSE [clips |-> cl, mixer |-> made, threw |-> FALSE]

\* load(url, rootPath, assetMap), lines 106-129: the hook is replaced by the
\* closure of this call and the loader is started
Load(l, req) ==
    /\ loadPc[l] = "idle"
    /\ \A j \in 1..(l - 1) : loadPc[j] # "idle"
    /\ loadPc' = [loadPc EXCEPT ![l] = "loading"]
    /\ loadArgs' = [loadArgs EXCEPT ![l] = req]
    /\ hook' = l
    /\ threw' = FALSE
    /\ vop' = "load"
    /\ UNCHANGED <<blobURLs, liveBlobs, state, lights, content, clips, mixer>>
    /\ UNCHANGED cvars

\* the loader of a load call resolves a relative url: it calls
\* window.gltfPathTransform, which is the closure of the call that set it last
GltfPathTransform(l, url) ==
    /\ loadPc[l] = "loading"
    /\ LET hit == HookHits(url, loadArgs[hook])
           fresh == Cardinality(Created) + 1
       IN  /\ hit => Cardinality(Created) < MaxBlobs
           /\ blobURLs' = IF hit THEN [blobURLs EXCEPT ![hook] = Append(@, fresh)]
                          ELSE blobURLs
           /\ liveBlobs' = IF hit THEN liveBlobs \cup {fresh} ELSE liveBlobs
    /\ threw' = FALSE
    /\ vop' = "gltfPathTransform"
    /\ UNCHANGED <<loadPc, loadArgs, hook, state, lights, content, clips, mixer>>
    /\ UNCHANGED cvars

\* the onLoad callback, lines 129-136: setContent, setClips, the revocation of
\* this call's blobURLs, resolve()
OnLoad(l, gltf) ==
    /\ loadPc[l] = "loading"
    /\ content' = gltf.scene
    /\ state' = [state EXCEPT !.addLights = ~gltf.scene.hasLight]
    /\ lights' = updateLights(state', lights)
    /\ LET after == setClips(gltf.animations, content', state')
       IN  /\ clips' = after.clips
           /\ mixer' = after.mixer
           /\ threw' = after.threw
    /\ liveBlobs' = RevokeAll(liveBlobs, blobURLs[l])
    /\ loadPc' = [loadPc EXCEPT ![l] = "resolved"]
    /\ vop' = "onLoad"
    /\ UNCHANGED <<loadArgs, hook, blobURLs>>
    /\ UNCHANGED cvars

\* the onError callback, line 138: reject
OnError(l) ==
    /\ loadPc[l] = "loading"
    /\ loadPc' = [loadPc EXCEPT ![l] = "rejected"]
    /\ threw' = FALSE
    /\ vop' = "onError"
    /\ UNCHANGED <<loadArgs, hook, blobURLs, liveBlobs, state, lights, content,
                   clips, mixer>>
    /\ UNCHANGED cvars

\* the addLights checkbox, lines 298-299: the control flips state.addLights
\* and its handler calls updateLights
LightCtrl ==
    /\ state' = [state EXCEPT !.addLights = ~state.addLights]
    /\ lights' = updateLights(state', lights)
    /\ threw' = FALSE
    /\ vop' = "lightCtrl"
    /\ UNCHANGED <<loadPc, loadArgs, hook, blobURLs, liveBlobs, content, clips, mixer>>
    /\ UNCHANGED cvars

\* a light control, lines 300-317: the control stores the value in this.state
\* and its handler writes it to the lights
LightParam(h, v) ==
    /\ state' = [state EXCEPT ![h] = v]
    /\ lights' = LightHandler(lights, h, v).lights
    /\ threw' = LightHandler(lights, h, v).threw
    /\ vop' = "lightParam"
    /\ UNCHANGED <<loadPc, loadArgs, hook, blobURLs, liveBlobs, content, clips, mixer>>
    /\ UNCHANGED cvars

\* the playAnimation checkbox, lines 277-281: the control flips
\* state.playAnimation and its handler plays or stops
AnimationCtrl ==
    /\ state' = [state EXCEPT !.playAnimation = ~state.playAnimation]
    /\ IF state'.playAnimation
       THEN /\ mixer' = playAnimation(clips, mixer).mixer
            /\ threw' = playAnimation(clips, mixer).threw
       ELSE /\ mixer' = stopAnimation(mixer)
            /\ threw' = FALSE
    /\ vop' = "animationCtrl"
    /\ UNCHANGED <<loadPc, loadArgs, hook, blobURLs, liveBlobs, lights, content, clips>>
    /\ UNCHANGED cvars

NextViewer ==
    \/ \E l \in Loads, req \in LoadRequests : Load(l, req)
    \/ \E l \in Loads, url \in LoaderURLs : GltfPathTransform(l, url)
    \/ \E l \in Loads, gltf \in Gltfs : OnLoad(l, gltf)
    \/ \E l \in Loads : OnError(l)
    \/ LightCtrl
    \/ \E h \in LightHandlers : \E v \in HandlerValues(h) : LightParam(h, v)
    \/ AnimationCtrl

SpecViewer == Init /\ [][NextViewer]_vars

\* ------------------------------------------------------------------ claims
\* the asset-map key of a resolver call, and the request it was made under
RequestOf(c) == args[resolves[c].inv]

KeyOf(c) ==
    normalizedURL(resolves[c].uri, extractUrlBase(RequestOf(c).rootFile),
                  RequestOf(c).rootPath)

Settled(c) == resolves[c].status \in {"fulfilled", "rejected"}

\* C1: every validate invocation takes exactly one of the two report paths: it
\* never runs both setReport and setReportException, and once it has completed
\* it has run exactly one of them, once.
C1_ExclusiveOutcomes ==
    \A i \in Invocations :
        /\ ran[i].setReport + ran[i].setReportException <= 1
        /\ pc[i] = "done" => ran[i].setReport + ran[i].setReportException = 1

\* C2: a failure inside validate (root fetch, validator, resource resolution) is
\* routed to the exception path: a failed invocation is completed by
\* setReportException and by nothing else, the step that completes it leaves no
\* report held and the toggle shown with the error view of that failure, and
\* showLightbox is a no-op for as long as no report is held.
C2_FailureRouted ==
    /\ [](\A i \in Invocations :
            failure[i] # "none" =>
                /\ pc[i] \in {"rejected", "done"}
                /\ pc[i] = "done" => ran[i].setReportException = 1)
    /\ [][\A i \in Invocations :
            (pc[i] # "done" /\ pc'[i] = "done" /\ failure'[i] # "none") =>
                /\ lastOp' = "setReportException"
                /\ report' = Null
                /\ ~toggleHidden'
                /\ toggleContent' = ToggleErrorView(failure[i])]_vars
    /\ [][(report = Null /\ lastOp' = "showLightbox") =>
            UNCHANGED <<report, tabs, toggleHidden, toggleContent>>]_vars

\* C2 witness: a root-file fetch failed, its invocation completed on the
\* exception path, and showLightbox was called after it.
C2_Witness ==
    /\ \E i \in Invocations : pc[i] = "done" /\ failure[i] = "rootFetch"
    /\ lastOp = "showLightbox"
    /\ report = Null /\ tabs = <<>>
    /\ ~toggleHidden /\ toggleContent = ToggleErrorView("rootFetch")

\* C3: no resolver call has settled (fulfilled or rejected) while the object
\* URL it created is still unrevoked.
C3_HandleReleased ==
    \A c \in Calls :
        (Settled(c) /\ resolves[c].objectURL # 0) => resolves[c].objectURL \notin liveURLs

\* C4: a resolver call whose normalized URI is a key of the asset map issues no
\* network fetch, and the bytes it fulfils with are exactly those stored at
\* that key.
C4_LocalHit ==
    \A c \in Calls :
        KeyOf(c) \in DOMAIN RequestOf(c).assetMap =>
            /\ \A f \in 1..Len(resolves[c].fetches) : ~resolves[c].fetches[f].net
            /\ resolves[c].status = "fulfilled" =>
                    resolves[c].bytes = RequestOf(c).assetMap[KeyOf(c)]

\* C4 witness: a request whose uri carries the base directory of the root file
\* hit the asset map and was fulfilled.
C4_Witness ==
    \E c \in Calls :
        /\ resolves[c].uri = <<"d", "/", "a">>
        /\ KeyOf(c) = <<"a">>
        /\ KeyOf(c) \in DOMAIN RequestOf(c).assetMap
        /\ resolves[c].status = "fulfilled"
        /\ resolves[c].bytes = "bytesA"

\* C5: a resolver call whose normalized URI is no key of the asset map issues
\* exactly one fetch, a network fetch of baseDirectory(rootFile) + the original
\* uri, and creates no object URL.
C5_NetworkMiss ==
    \A c \in Calls :
        KeyOf(c) \notin DOMAIN RequestOf(c).assetMap =>
            /\ Len(resolves[c].fetches) = 1
            /\ resolves[c].fetches[1].net
            /\ resolves[c].fetches[1].url
                   = extractUrlBase(RequestOf(c).rootFile) \o resolves[c].uri
            /\ resolves[c].objectURL = 0
            /\ c \notin liveURLs

\* C5 witness: an escaped uri missed the asset map and the network delivered it.
C5_Witness ==
    \E c \in Calls :
        /\ resolves[c].uri = <<"b", "%20">>
        /\ KeyOf(c) \notin DOMAIN RequestOf(c).assetMap
        /\ resolves[c].fetches = << [net |-> TRUE, blob |-> 0,
                                     url |-> <<"d", "/", "b", "%20">>] >>
        /\ resolves[c].status = "fulfilled"
        /\ resolves[c].bytes = NetBytes

\* C6: the toggle is hidden or shown, hidden after construction; a present call
\* that completes (setReport returning, setReportException) leaves it shown
\* whatever it was, hideToggle leaves it hidden, showLightbox leaves it as it
\* was, and nothing else changes it.
C6_ToggleMachine ==
    /\ [](lastOp = "constructor" => toggleHidden)
    /\ [][/\ lastOp' = "setReportException" => ~toggleHidden'
          /\ (lastOp' = "setReport" /\ ~MicrotaskPending') => ~toggleHidden'
          /\ lastOp' = "hideToggle" => toggleHidden'
          /\ lastOp' = "showLightbox" => toggleHidden' = toggleHidden
          /\ (\/ lastOp' \notin {"setReportException", "setReport", "hideToggle"}
              \/ (lastOp' = "setReport" /\ MicrotaskPending'))
                => toggleHidden' = toggleHidden]_vars

\* C6 witness: a report was presented, its full view opened and the toggle then
\* dismissed.
C6_Witness ==
    /\ lastOp = "hideToggle"
    /\ toggleHidden
    /\ toggleContent.view = "report"
    /\ report # Null
    /\ tabs # <<>>

\* C7: a showLightbox call opens one tab rendered from the held report when a
\* report is held, and changes nothing when none is held; no other step and no
\* call without a report opens a tab.
C7_LightboxIffReport ==
    /\ [][lastOp' = "showLightbox" =>
            /\ UNCHANGED <<pc, args, result, failure, ran, resolves, liveURLs, report,
                           toggleHidden, toggleContent, registry>>
            /\ report = Null => tabs' = tabs
            /\ report # Null => tabs' = Append(tabs, LightboxView(report, registry))]_vars
    /\ [][tabs' # tabs => (lastOp' = "showLightbox" /\ report # Null)]_vars

\* C7 witness: a tab was opened while a report was held, and a later call, after
\* an exception outcome, opened nothing.
C7_Witness ==
    /\ lastOp = "showLightbox"
    /\ report = Null
    /\ toggleContent.view = "error"
    /\ Len(tabs) = 1

\* the messages of a sequence with a code and a pointer
Matching(seq, code, pointer) ==
    SelectSeq(seq, LAMBDA m : m.code = code /\ m.pointer = pointer)

\* C8: for each high-volume code and pointer, a pair that occurs once among the
\* errors keeps its message and gets no synthetic one; a pair that occurs n >= 2
\* times is replaced by exactly one synthetic message with that code and pointer
\* whose text contains n; messages of other codes are unaffected.
C8_AggregationThreshold ==
    report.kind = "report" =>
        LET before == FilterSeverity(report.messages, 0)
            after == report.errors
        IN  /\ \A k \in 1..Len(CODES) : \A p \in Pointers :
                LET n == Len(Matching(before, CODES[k], p))
                    now == Matching(after, CODES[k], p)
                IN  /\ n = 0 => now = <<>>
                    /\ n = 1 => now = Matching(before, CODES[k], p)
                    /\ n >= 2 =>
                          /\ Len(now) = 1
                          /\ now[1].severity = NoSeverity
                          /\ \E t \in 1..Len(now[1].message) : now[1].message[t] = NumStr(n)
            /\ SelectSeq(after, LAMBDA m : ~IsCode(m.code))
                 = SelectSeq(before, LAMBDA m : ~IsCode(m.code))

\* the display name of a registry entry as loaded
DisplayName(tool) ==
    IF tool.name # tool.author THEN tool.name \o <<" by ">> \o tool.author ELSE tool.name

\* C9: the generator display rewrite is idempotent and leaves the registry
\* alone: whatever setReport calls ran, the registry is as it was loaded, and a
\* report that matches an entry shows "name by author" (or the bare name when
\* the two are equal), never with the suffix appended twice.
C9_DisplayRewrite ==
    /\ registry = RegistryInit
    /\ toggleContent.view = "report" =>
          (toggleContent.report.generator # 0 =>
              toggleContent.generatorName
                  = DisplayName(RegistryInit[toggleContent.report.generator]))

\* C10: maxSeverity is the 0-based index of the first of numErrors, numWarnings,
\* numInfos, numHints that is greater than zero, and -1 when all four are zero.
C10_MaxSeverity ==
    report.kind = "report" =>
        LET count == [k \in 1..Len(SEVERITY_MAP) |-> report.num[SEVERITY_MAP[k]]]
            level == report.maxSeverity
        IN  /\ (\A k \in 1..Len(SEVERITY_MAP) : count[k] = 0) => level = -1
            /\ (\E k \in 1..Len(SEVERITY_MAP) : count[k] > 0) =>
                  /\ level \in 0..(Len(SEVERITY_MAP) - 1)
                  /\ count[level + 1] > 0
                  /\ \A j \in 1..level : count[j] = 0

\* C10 witness: counts 0, 3, 0, 1 were normalized to maxSeverity 1.
C10_Witness ==
    /\ report.kind = "report"
    /\ report.num = Num(0, 3, 0, 1)
    /\ report.maxSeverity = 1
    /\ lastOp = "setReport"

\* the messages of a list with a severity, by their positions in the list
AtLevel(messages, level) ==
    LET at == SortedSeq({k \in 1..Len(messages) : messages[k].severity = level})
    IN  [n \in 1..Len(at) |-> messages[at[n]]]

\* C11: the four buckets partition the message list: every message has one of
\* the severities 0..3 and so one bucket, the bucket of a severity holds exactly
\* the messages of that severity in their original order (the errors as what
\* aggregation was then applied to), and the four lengths sum to the number of
\* messages.
C11_Partition ==
    report.kind = "report" =>
        LET all == report.messages
        IN  /\ \A k \in 1..Len(all) :
                  Cardinality({level \in 0..3 : all[k].severity = level}) = 1
            /\ report.errors = groupMessages(AtLevel(all, 0))
            /\ report.warnings = AtLevel(all, 1)
            /\ report.infos = AtLevel(all, 2)
            /\ report.hints = AtLevel(all, 3)
            /\ Len(AtLevel(all, 0)) + Len(report.warnings) + Len(report.infos)
                 + Len(report.hints) = Len(all)

\* C11 witness: two different warnings around an error were normalized, and
\* the warnings bucket holds the two in the order they were listed.
C11_Witness ==
    /\ report.kind = "report"
    /\ report.messages = << Msg("OTHER", "/meshes/1", 1), Msg("OTHER", "/meshes/0", 0),
                            Msg("OTHER", "/meshes/0", 1) >>
    /\ report.warnings = << Msg("OTHER", "/meshes/1", 1), Msg("OTHER", "/meshes/0", 1) >>
    /\ report.errors = << Msg("OTHER", "/meshes/0", 0) >>

\* the step completes invocation i
Completes(i) == pc[i] # "done" /\ pc'[i] = "done"

\* C12: starting a validate call leaves every other call as it stands (an
\* earlier call is not cancelled); the report held and the toggle content
\* change only in a step that completes an invocation, and that step sets them
\* to the outcome of the invocation it completes, whatever was presented
\* before; so after overlapping calls the outcome of whichever call completed
\* last is the one presented and held.
C12_LastCompletedWins ==
    /\ [][\A j \in Invocations :
            (pc[j] = "idle" /\ pc'[j] # "idle") =>
                \A i \in Invocations \ {j} :
                    pc'[i] = pc[i] /\ args'[i] = args[i] /\ result'[i] = result[i]]_vars
    /\ [][\A i \in Invocations :
            Completes(i) =>
                /\ ~toggleHidden'
                /\ IF failure'[i] = "none"
                   THEN /\ report'.kind = "report"
                        /\ report'.info = result[i].generator
                        /\ report'.num = result[i].num
                        /\ report'.messages = result[i].messages
                        /\ toggleContent'.view = "report"
                        /\ toggleContent'.report = report'
                   ELSE /\ report' = Null
                        /\ toggleContent' = ToggleErrorView(failure[i])]_vars
    /\ [][(report' # report \/ toggleContent' # toggleContent) =>
            \E i \in Invocations : Completes(i)]_vars

\* C12 witness: two calls overlapped, the second failed at its root fetch and
\* completed first, the first completed after it: the report of the first call
\* is held and presented.
C12_Witness ==
    /\ \A i \in Invocations : pc[i] = "done"
    /\ failure[1] = "none" /\ failure[2] = "rootFetch"
    /\ report.kind = "report"
    /\ report.messages = result[1].messages
    /\ toggleContent.view = "report" /\ toggleContent.report = report

\* C13: once any validation has completed, exactly one outcome is live: a
\* report is held and the toggle content was rendered from that same report, or
\* no report is held and the toggle content is the exception view; and the
\* step that completes a validation with an exception leaves no report held,
\* whatever report was held before.
C13_SingleOutcome ==
    /\ []((\E i \in Invocations : pc[i] = "done") =>
            \/ /\ report # Null
               /\ report.kind = "report"
               /\ toggleContent.view = "report"
               /\ toggleContent.report = report
            \/ /\ report = Null
               /\ toggleContent.view = "error")
    /\ [][lastOp' = "setReportException" => report' = Null]_vars

\* C13 witness: a report was held, then another validation completed with an
\* exception: nothing is held and the toggle shows the exception view.
C13_Witness ==
    /\ \E i \in Invocations : pc[i] = "done" /\ failure[i] = "none"
    /\ \E i \in Invocations : pc[i] = "done" /\ failure[i] = "resource"
    /\ lastOp = "setReportException"
    /\ report = Null
    /\ toggleContent = ToggleErrorView("resource")

\* C14: within one validate call the root fetch and the read of its body are
\* over before the validator is invoked; a resolver callback of the call starts
\* only while the validator is running; the validator returns, and
\* normalization and presentation happen, only when no resolver callback of the
\* call is outstanding, and setReport runs only on what the validator returned.
C14_Ordering ==
    /\ [][\A i \in Invocations :
            /\ (pc[i] # "readRoot" /\ pc'[i] = "readRoot") => pc[i] = "fetchRoot"
            /\ (pc[i] # "validating" /\ pc'[i] = "validating") => pc[i] = "readRoot"
            /\ (pc[i] # "resolved" /\ pc'[i] = "resolved") =>
                    (pc[i] = "validating" /\ result'[i] # NoReport)
            /\ ran'[i].setReport > ran[i].setReport =>
                    (pc[i] = "resolved" /\ result[i] # NoReport)]_vars
    /\ [][Len(resolves') > Len(resolves) =>
            /\ resolves' = Append(resolves, resolves'[Len(resolves')])
            /\ pc[resolves'[Len(resolves')].inv] = "validating"
            /\ resolves'[Len(resolves')].status = "fetching"]_vars
    /\ [](\A i \in Invocations :
            (pc[i] \in {"resolved", "done"} \/ ran[i].setReport > 0) =>
                \A c \in Calls : resolves[c].inv = i => Settled(c))

\* C14 witness: two resolver callbacks of one call overlap: the second was
\* started while the first was outstanding and has finished before it, and the
\* validator of the call is still running.
C14_Witness ==
    /\ Len(resolves) = 2
    /\ resolves[1].inv = 1 /\ resolves[2].inv = 1
    /\ resolves[1].status = "fetching" /\ resolves[2].status = "fulfilled"
    /\ pc[1] = "validating" /\ ran[1].setReport = 0

\* C15: aggregation is idempotent: applying groupMessages to the errors it
\* produced yields the same sequence.
C15_AggregationIdempotent ==
    report.kind = "report" => groupMessages(report.errors) = report.errors

\* whether a generator string is an instance of a pattern with one "*": it
\* starts with what stands before the "*" and ends with what stands after it
InstanceOf(pattern, id) ==
    LET star == IndexOf(pattern, <<"*">>)
        before == SubSeq(pattern, 1, star - 1)
        after == SubSeq(pattern, star + 1, Len(pattern))
    IN  /\ Len(id) >= Len(before) + Len(after)
        /\ SubSeq(id, 1, Len(before)) = before
        /\ SubSeq(id, Len(id) - Len(after) + 1, Len(id)) = after

\* whether a registry entry stands for a generator string, as the claim has it
Covers(tool, id) ==
    IF \E n \in 1..Len(tool.generator) : tool.generator[n] = "*"
    THEN InstanceOf(tool.generator, id)
    ELSE tool.generator = id

\* C16: the generator of a normalized report is the first registry entry, in
\* registry order, that stands for the report's generator string (the empty
\* string when the report names none): an entry without "*" only for the string
\* equal to it, an entry with "*" for every instance of the pattern; it is
\* undefined when no entry does.
C16_FirstMatch ==
    report.kind = "report" =>
        LET id == report.info
            found == report.generator
            covering == {k \in 1..Len(RegistryInit) : Covers(RegistryInit[k], id)}
        IN  /\ covering = {} => found = 0
            /\ covering # {} =>
                  /\ found \in covering
                  /\ \A k \in covering : found <= k

\* C16 witness: "C2" is an instance of the first entry "C*" and equals the
\* third entry: the first was found; and for "BC2", which only contains the
\* entries "B" and "C2", and for the empty string nothing is found.
C16_Witness ==
    /\ report.kind = "report"
    /\ report.info = <<"C", "2">>
    /\ report.generator = 1
    /\ Covers(RegistryInit[3], report.info)
    /\ FindGenerator(RegistryInit, <<"B", "C", "2">>) = 0
    /\ FindGenerator(RegistryInit, <<>>) = 0

\* C17: whenever no load is outstanding, every object URL the path-transform
\* hook created has been revoked.
C17_BlobsRevoked ==
    (\A l \in Loads : loadPc[l] # "loading") => liveBlobs = {}

\* C18: a light-parameter handler that has run found its lights: this.lights
\* held three entries and the handler did not throw on a missing one.
C18_HandlersFindLights ==
    vop = "lightParam" => (~threw /\ Len(lights) = 3)

\* C19: clips are never held without a mixer, so neither the playAnimation
\* toggle nor setClips throws on a null mixer; and right after setClips (the
\* onLoad callback) there is a mixer exactly when there are clips.
C19_MixerForClips ==
    /\ clips # <<>> => mixer # NoMixer
    /\ vop \in {"animationCtrl", "onLoad"} => ~threw
    /\ vop = "onLoad" => (mixer # NoMixer <=> clips # <<>>)

\* C19 witness: content with a clip was loaded while playAnimation was switched
\* off, and the toggle then played the clip on the mixer setClips had made.
C19_Witness ==
    /\ vop = "animationCtrl"
    /\ state.playAnimation
    /\ clips = <<"clip">>
    /\ mixer # NoMixer
    /\ mixer.playing = {"clip"}
    /\ mixer.root = content
    /\ ~threw

\* C20: this.lights holds no light or the three viewer lights; right after an
\* updateLights call (the onLoad callback, the addLights checkbox) it holds
\* lights exactly when state.addLights is set; and an updateLights call that
\* finds the three lights with state.addLights set leaves them as they are.
C20_LightSet ==
    /\ [](Len(lights) \in {0, 3})
    /\ [](vop \in {"onLoad", "lightCtrl"} => (lights # <<>> <=> state.addLights))
    /\ [][(vop' \in {"onLoad", "lightCtrl"} /\ lights # <<>> /\ state'.addLights)
            => lights' = lights]_vars

\* C20 witness: content without lights was loaded while the viewer lights
\* were already there (a second updateLights call with state.addLights set):
\* still three lights, with the intensity a handler had given them.
C20_Witness ==
    /\ vop = "onLoad"
    /\ \A l \in Loads : loadPc[l] = "resolved"
    /\ state.addLights
    /\ Len(lights) = 3
    /\ lights[1].intensity = 0
    /\ ~content.hasLight

====
